---- MODULE Spec2Model ----
(***************************************************************************)
(* A model of aggregate_project_files (src/aggregate_project.py and its    *)
(* workflow-less twin src/extractor.py): one run over a small directory    *)
(* tree.  Text is a sequence of one-character strings, a file's raw data   *)
(* is a sequence of byte values, a path is the sequence of its name        *)
(* components below the root, and the output stream is the sequence of the *)
(* strings handed to out_f.write.                                          *)
(***************************************************************************)
EXTENDS Integers, Sequences, FiniteSets, TLC

\* ------------------------------------------------------------------ bounds
\* Longest raw data of a file, in bytes.
MaxLen == 2
\* The size threshold (max_bytes) a run is given.
MaxBytes == 1
\* Most stat/read failures the file system injects in one run.
MaxFailures == 2

\* ------------------------------------------------------------- characters
NUL == "<NUL>"
REPL == "<U+FFFD>"
NL == "\n"

\* The byte values files are made of: NUL, LF, 'a', and 0xFF (never valid UTF-8).
Bytes == {0, 10, 97, 255}

\* Code points of the characters file names are made of (str comparison).
CodePoint ==
  "-" :> 45 @@ "." :> 46 @@ "_" :> 95 @@ "a" :> 97 @@ "b" :> 98 @@ "c" :> 99
  @@ "d" :> 100 @@ "e" :> 101 @@ "f" :> 102 @@ "g" :> 103 @@ "h" :> 104
  @@ "i" :> 105 @@ "j" :> 106 @@ "k" :> 107 @@ "l" :> 108 @@ "m" :> 109
  @@ "n" :> 110 @@ "o" :> 111 @@ "p" :> 112 @@ "q" :> 113 @@ "r" :> 114
  @@ "s" :> 115 @@ "t" :> 116 @@ "u" :> 117 @@ "v" :> 118 @@ "w" :> 119
  @@ "x" :> 120 @@ "y" :> 121 @@ "z" :> 122

\* open(..., encoding="utf-8", errors="replace").read() on one byte of Bytes:
\* an ASCII byte decodes to its character, the invalid byte 0xFF to U+FFFD.
DecodeByte(b) ==
  IF b = 0 THEN NUL
  ELSE IF b = 10 THEN NL
  ELSE IF b = 97 THEN "a"
  ELSE REPL

Decode(raw) == [i \in 1..Len(raw) |-> DecodeByte(raw[i])]

\* ------------------------------------------------------------ string tools
EndsWith(s, suffix) ==
  /\ Len(s) >= Len(suffix)
  /\ SubSeq(s, Len(s) - Len(suffix) + 1, Len(s)) = suffix

Count(s, c) == Cardinality({i \in DOMAIN s : s[i] = c})

\* str < str: code point by code point, a proper prefix first.
RECURSIVE LexLess(_, _)
LexLess(s, t) ==
  IF s = <<>> THEN t # <<>>
  ELSE IF t = <<>> THEN FALSE
  ELSE IF Head(s) = Head(t) THEN LexLess(Tail(s), Tail(t))
  ELSE CodePoint[Head(s)] < CodePoint[Head(t)]

RECURSIVE Insert(_, _)
Insert(x, s) ==
  IF s = <<>> THEN <<x>>
  ELSE IF LexLess(x, Head(s)) THEN <<x>> \o s
  ELSE <<Head(s)>> \o Insert(x, Tail(s))

RECURSIVE InsertAll(_, _)
InsertAll(todo, done) ==
  IF todo = <<>> THEN done ELSE InsertAll(Tail(todo), Insert(Head(todo), done))

\* a faulty variant of sorted: the listing order is kept
Unsorted(names) == names

\* sorted(os.listdir(workflows_dir))
sorted(names) == InsertAll(names, <<>>)

\* --------------------------------------------------------------- constants
SKIP_DIRS == {
    <<"n","o","d","e","_","m","o","d","u","l","e","s">>,
    <<".","p","n","p","m","-","s","t","o","r","e">>,
    <<".","y","a","r","n">>,
    <<".","t","u","r","b","o">>,
    <<"b","u","i","l","d">>,
    <<"d","i","s","t">>,
    <<".","n","e","x","t">>,
    <<".","n","u","x","t">>,
    <<".","o","u","t","p","u","t">>,
    <<".","v","i","t","e">>,
    <<".","d","a","r","t","_","t","o","o","l">>,
    <<".","g","r","a","d","l","e">>,
    <<"i","o","s">>,
    <<"a","n","d","r","o","i","d">>,
    <<".","i","d","e","a">>,
    <<".","v","s","c","o","d","e">>,
    <<"c","o","v","e","r","a","g","e">>,
    <<".","g","i","t">>,
    <<".","s","v","n">>,
    <<".","h","g">>,
    <<"_","_","p","y","c","a","c","h","e","_","_">>}

\* max_replacement_ratio = 0.3, as the fraction 3/10
MaxReplacementRatioNum == 3
MaxReplacementRatioDen == 10

\* the separator line is 40 '=' characters
SepLen == 40
Sep == [i \in 1..SepLen |-> "="]

KindFile == <<"F","I","L","E">>
KindWorkflow == <<"G","I","T"," ","W","O","R","K","F","L","O","W">>

\* ------------------------------------------------- the tree under the root
n_a_txt == <<"a",".","t","x","t">>
n_out_txt == <<"o","u","t",".","t","x","t">>
n_x_txt == <<"x",".","t","x","t">>
n_deep_txt == <<"d","e","e","p",".","t","x","t">>
n_gen_txt == <<"g","e","n",".","t","x","t">>
n_node_modules == <<"n","o","d","e","_","m","o","d","u","l","e","s">>
n_lib == <<"l","i","b">>
n_src == <<"s","r","c">>
n_build == <<"b","u","i","l","d">>
n_github == <<".","g","i","t","h","u","b">>
n_workflows == <<"w","o","r","k","f","l","o","w","s">>
n_ci_yml == <<"c","i",".","y","m","l">>
n_deploy_yaml == <<"d","e","p","l","o","y",".","y","a","m","l">>
n_notes_md == <<"n","o","t","e","s",".","m","d">>

Root == <<>>
WorkflowsDir == <<n_github, n_workflows>>
\* an output path that is not below the root
OutsidePath == <<<<".",".">>, n_out_txt>>
InsidePath == <<n_out_txt>>

\* the entries of .github/workflows, and the orders the file system lists
\* them in
WorkflowEntries == <<n_ci_yml, n_deploy_yaml, n_notes_md>>
ListingOrders ==
  {WorkflowEntries,
   [i \in 1..Len(WorkflowEntries) |-> WorkflowEntries[Len(WorkflowEntries) + 1 - i]]}

PrunedFiles ==
  {<<n_node_modules, n_x_txt>>, <<n_node_modules, n_lib, n_deep_txt>>,
   <<n_src, n_build, n_gen_txt>>}
WorkflowFiles == {WorkflowsDir \o <<WorkflowEntries[i]>> : i \in DOMAIN WorkflowEntries}
DataFiles == {<<n_a_txt>>} \cup WorkflowFiles \cup PrunedFiles

\* the raw data a run gives a file: up to n bytes, all 'a' but for one at most
ByteStrings(n) ==
  {raw \in UNION {[1..k -> Bytes] : k \in 0..n} :
     Cardinality({i \in DOMAIN raw : raw[i] # 97}) <= 1}

\* the files whose data a run varies
VaryFiles == {<<n_a_txt>>, WorkflowsDir \o <<n_ci_yml>>}

DefaultData ==
  [f \in DataFiles |->
     IF f = WorkflowsDir \o <<n_ci_yml>> THEN <<10>>
     ELSE IF f = WorkflowsDir \o <<n_notes_md>> THEN <<255>>
     ELSE <<97>>]

VARIABLES
  variant,                \* which source file runs
  include_git_workflows,  \* the parameter (FALSE in extractor.py, which has none)
  root_is_dir,            \* os.path.isdir(root_dir)
  output_path,            \* the output file's path
  max_bytes,              \* int(max_file_size_mb * 1024 * 1024)
  has_workflows,          \* whether <root>/.github/workflows exists
  wf_listing,             \* the order the file system lists .github/workflows in
  data,                   \* the raw bytes of every file of the tree
  pc,                     \* the position in aggregate_project_files
  out_f,                  \* "unopened", "open" or "closed"
  output,                 \* the output file: the strings written to it, in order
  files_seen, files_aggregated, files_skipped_size, files_skipped_binary,
  files_failed, workflows_included,
  wf_names,               \* the workflow loop's remaining names
  wf_name,                \* the workflow loop's current name
  walk_stack,             \* the directories os.walk has still to yield
  current_root,           \* the directory os.walk yielded last
  files,                  \* the file loop's remaining names
  file_path,              \* the file loop's current path
  content,                \* the text read last
  statted,                \* the paths whose size was obtained
  reads,                  \* the full reads done, in order: <<phase, path>>
  summary                 \* the counters the final summary printed

config == <<variant, include_git_workflows, root_is_dir, output_path, max_bytes,
            has_workflows, wf_listing, data>>
counters == <<files_seen, files_aggregated, files_skipped_size,
              files_skipped_binary, files_failed, workflows_included>>
vars == <<config, pc, out_f, output, counters, wf_names, wf_name, walk_stack,
          current_root, files, file_path, content, statted, reads, summary>>

\* what the output file held before the run
PriorOutput == <<<<"o","l","d",NL>>>>
NoSummary == <<>>

\* os.walk's (dirs, files) of a directory
SubDirs(d) ==
  IF d = Root THEN
    <<n_node_modules, n_src>> \o (IF has_workflows THEN <<n_github>> ELSE <<>>)
  ELSE IF d = <<n_node_modules>> THEN <<n_lib>>
  ELSE IF d = <<n_src>> THEN <<n_build>>
  ELSE IF d = <<n_github>> THEN <<n_workflows>>
  ELSE <<>>

\* The output file exists from the moment it is opened, so a walk of its
\* directory lists it.
FilesIn(d) ==
  IF d = Root THEN
    (IF output_path = InsidePath THEN <<n_out_txt>> ELSE <<>>) \o <<n_a_txt>>
  ELSE IF d = <<n_node_modules>> THEN <<n_x_txt>>
  ELSE IF d = <<n_node_modules, n_lib>> THEN <<n_deep_txt>>
  ELSE IF d = <<n_src, n_build>> THEN <<n_gen_txt>>
  ELSE IF d = WorkflowsDir THEN wf_listing
  ELSE <<>>

\* ------------------------------------------------------ the code's helpers
\* a faulty variant of is_probably_binary: the NUL test is left out
is_probably_binary_no_nul(text) ==
  IF Len(text) = 0 THEN FALSE
  ELSE Count(text, REPL) * MaxReplacementRatioDen
         > MaxReplacementRatioNum * Len(text)

is_probably_binary(text) ==
  IF \E i \in DOMAIN text : text[i] = NUL THEN TRUE
  ELSE IF Len(text) = 0 THEN FALSE
  ELSE Count(text, REPL) * MaxReplacementRatioDen
         > MaxReplacementRatioNum * Len(text)

\* a faulty variant of TooLarge: the boundary is inclusive
TooLargeInclusive(size) == size >= max_bytes

\* size > max_bytes
TooLarge(size) == size > max_bytes

\* wf_name.endswith(".yml") or wf_name.endswith(".yaml")
is_workflow_name(name) ==
  \/ EndsWith(name, <<".","y","m","l">>)
  \/ EndsWith(name, <<".","y","a","m","l">>)

\* a faulty variant of Prune: nothing is pruned
KeepAll(dirs) == dirs

\* a variant of Prune: .github is skipped as well
PruneAlsoGithub(dirs) ==
  SelectSeq(dirs, LAMBDA d : d \notin SKIP_DIRS \cup {n_github})

\* dirs[:] = [d for d in dirs if d not in SKIP_DIRS]
Prune(dirs) == SelectSeq(dirs, LAMBDA d : d \notin SKIP_DIRS)

\* os.path.relpath(path, root_dir)
RECURSIVE relpath(_)
relpath(path) ==
  IF Len(path) = 1 THEN path[1]
  ELSE path[1] \o <<"/">> \o relpath(Tail(path))

HeaderLine(kind, path) == kind \o <<":", " ">> \o relpath(path) \o <<NL>>

\* a faulty variant of Record: a newline is added after every content
RecordAlwaysNewline(kind, path, text) ==
  <<Sep \o <<NL>>, HeaderLine(kind, path), Sep \o <<NL, NL>>, text, <<NL>>, <<NL>>>>

\* the out_f.write calls of one record
Record(kind, path, text) ==
  <<Sep \o <<NL>>, HeaderLine(kind, path), Sep \o <<NL, NL>>, text>>
  \o (IF ~EndsWith(text, <<NL>>) THEN <<<<NL>>>> ELSE <<>>)
  \o <<<<NL>>>>

\* ------------------------------------------------------------------- Init
Init ==
  /\ variant \in {"extractor", "aggregate_project"}
  /\ include_git_workflows \in
       (IF variant = "extractor" THEN {FALSE} ELSE BOOLEAN)
  /\ root_is_dir \in BOOLEAN
  /\ output_path \in {OutsidePath, InsidePath}
  /\ max_bytes = MaxBytes
  /\ has_workflows \in (IF root_is_dir THEN BOOLEAN ELSE {FALSE})
  /\ wf_listing \in (IF has_workflows THEN ListingOrders ELSE {WorkflowEntries})
  /\ data \in
       (IF ~root_is_dir THEN {DefaultData}
        ELSE {[DefaultData EXCEPT ![f] = raw] :
                f \in (IF has_workflows THEN VaryFiles ELSE {<<n_a_txt>>}),
                raw \in ByteStrings(MaxLen)})
  /\ pc = "start"
  /\ out_f = "unopened"
  /\ output = PriorOutput
  /\ files_seen = 0
  /\ files_aggregated = 0
  /\ files_skipped_size = 0
  /\ files_skipped_binary = 0
  /\ files_failed = 0
  /\ workflows_included = 0
  /\ wf_names = <<>>
  /\ wf_name = <<>>
  /\ walk_stack = <<>>
  /\ current_root = Root
  /\ files = <<>>
  /\ file_path = <<>>
  /\ content = <<>>
  /\ statted = {}
  /\ reads = <<>>
  /\ summary = NoSummary

\* ---------------------------------------------------------------- actions
WorkflowsEnabled == variant = "aggregate_project" /\ include_git_workflows

\* a faulty variant of CheckRoot: the output is opened before the root is tested
OpenBeforeCheck ==
  /\ pc = "start"
  /\ out_f' = (IF root_is_dir THEN "open" ELSE "closed")
  /\ output' = <<>>
  /\ pc' = IF ~root_is_dir THEN "exit"
           ELSE IF WorkflowsEnabled THEN "workflows" ELSE "walk_start"
  /\ UNCHANGED <<config, counters, wf_names, wf_name, walk_stack, current_root,
                 files, file_path, content, statted, reads, summary>>

\* if not os.path.isdir(root_dir): ... sys.exit(1)
CheckRoot ==
  /\ pc = "start"
  /\ pc' = IF root_is_dir THEN "open" ELSE "exit"
  /\ UNCHANGED <<config, out_f, output, counters, wf_names, wf_name, walk_stack,
                 current_root, files, file_path, content, statted, reads, summary>>

\* with open(output_path, "w", ...) as out_f: the file is created or truncated
OpenOutput ==
  /\ pc = "open"
  /\ out_f' = "open"
  /\ output' = <<>>
  /\ pc' = IF WorkflowsEnabled THEN "workflows" ELSE "walk_start"
  /\ UNCHANGED <<config, counters, wf_names, wf_name, walk_stack, current_root,
                 files, file_path, content, statted, reads, summary>>

\* os.path.isdir(workflows_dir) and sorted(os.listdir(workflows_dir))
ListWorkflows ==
  /\ pc = "workflows"
  /\ IF has_workflows
       THEN /\ wf_names' = sorted(wf_listing)
            /\ pc' = "wf_loop"
       ELSE /\ wf_names' = wf_names
            /\ pc' = "walk_start"
  /\ UNCHANGED <<config, out_f, output, counters, wf_name, walk_stack,
                 current_root, files, file_path, content, statted, reads, summary>>

\* os.listdir raises OSError: except OSError: pass
ListWorkflowsFailed ==
  /\ pc = "workflows"
  /\ has_workflows
  /\ pc' = "walk_start"
  /\ UNCHANGED <<config, out_f, output, counters, wf_names, wf_name, walk_stack,
                 current_root, files, file_path, content, statted, reads, summary>>

\* for wf_name in ...: names without a workflow extension are passed over
NextWorkflow ==
  /\ pc = "wf_loop"
  /\ IF wf_names = <<>>
       THEN /\ pc' = "walk_start"
            /\ UNCHANGED <<wf_names, wf_name>>
       ELSE /\ wf_names' = Tail(wf_names)
            /\ wf_name' = Head(wf_names)
            /\ pc' = IF is_workflow_name(Head(wf_names)) THEN "wf_read" ELSE "wf_loop"
  /\ UNCHANGED <<config, out_f, output, counters, walk_stack, current_root,
                 files, file_path, content, statted, reads, summary>>

\* reading the workflow file raises: files_failed += 1; continue
ReadWorkflowFailed ==
  /\ pc = "wf_read"
  /\ files_failed < MaxFailures
  /\ files_failed' = files_failed + 1
  /\ pc' = "wf_loop"
  /\ UNCHANGED <<config, out_f, output, files_seen, files_aggregated,
                 files_skipped_size, files_skipped_binary, workflows_included,
                 wf_names, wf_name, walk_stack, current_root, files, file_path,
                 content, statted, reads, summary>>

\* the workflow file is read and written as a GIT WORKFLOW record
ReadWorkflow ==
  /\ pc = "wf_read"
  /\ LET wf_path == WorkflowsDir \o <<wf_name>>
         wf_content == Decode(data[wf_path])
     IN /\ reads' = Append(reads, <<"workflow", wf_path>>)
        /\ output' = output \o Record(KindWorkflow, wf_path, wf_content)
  /\ workflows_included' = workflows_included + 1
  /\ pc' = "wf_loop"
  /\ UNCHANGED <<config, out_f, files_seen, files_aggregated, files_skipped_size,
                 files_skipped_binary, files_failed, wf_names, wf_name, walk_stack,
                 current_root, files, file_path, content, statted, summary>>

\* for current_root, dirs, files in os.walk(root_dir): the walk starts at the root
StartWalk ==
  /\ pc = "walk_start"
  /\ walk_stack' = <<Root>>
  /\ pc' = "walk"
  /\ UNCHANGED <<config, out_f, output, counters, wf_names, wf_name, current_root,
                 files, file_path, content, statted, reads, summary>>

\* os.walk yields the next directory; the body prunes dirs, and the walk
\* descends into what is left, depth first
WalkDir ==
  /\ pc = "walk"
  /\ walk_stack # <<>>
  /\ LET d == Head(walk_stack)
         dirs == Prune(SubDirs(d))
     IN /\ current_root' = d
        /\ files' = FilesIn(d)
        /\ walk_stack' = [i \in 1..Len(dirs) |-> d \o <<dirs[i]>>] \o Tail(walk_stack)
  /\ pc' = "files"
  /\ UNCHANGED <<config, out_f, output, counters, wf_names, wf_name, file_path,
                 content, statted, reads, summary>>

\* for name in files: files_seen += 1; the output file itself is passed over
NextFile ==
  /\ pc = "files"
  /\ IF files = <<>>
       THEN /\ pc' = "walk"
            /\ UNCHANGED <<files, file_path, files_seen>>
       ELSE /\ files' = Tail(files)
            /\ file_path' = current_root \o <<Head(files)>>
            /\ files_seen' = files_seen + 1
            /\ pc' = IF current_root \o <<Head(files)>> = output_path
                       THEN "files" ELSE "getsize"
  /\ UNCHANGED <<config, out_f, output, files_aggregated, files_skipped_size,
                 files_skipped_binary, files_failed, workflows_included, wf_names,
                 wf_name, walk_stack, current_root, content, statted, reads, summary>>

\* a faulty variant of GetSizeFailed: the error ends the run
GetSizeFailedAborts ==
  /\ pc = "getsize"
  /\ files_failed < MaxFailures
  /\ pc' = "exit"
  /\ UNCHANGED <<config, out_f, output, counters, wf_names, wf_name, walk_stack,
                 current_root, files, file_path, content, statted, reads, summary>>

\* os.path.getsize raises OSError: files_failed += 1; continue
GetSizeFailed ==
  /\ pc = "getsize"
  /\ files_failed < MaxFailures
  /\ files_failed' = files_failed + 1
  /\ pc' = "files"
  /\ UNCHANGED <<config, out_f, output, files_seen, files_aggregated,
                 files_skipped_size, files_skipped_binary, workflows_included,
                 wf_names, wf_name, walk_stack, current_root, files, file_path,
                 content, statted, reads, summary>>

\* size = os.path.getsize(file_path); if size > max_bytes: skip
GetSize ==
  /\ pc = "getsize"
  /\ statted' = statted \cup {file_path}
  /\ IF TooLarge(Len(data[file_path]))
       THEN /\ files_skipped_size' = files_skipped_size + 1
            /\ pc' = "files"
       ELSE /\ files_skipped_size' = files_skipped_size
            /\ pc' = "read"
  /\ UNCHANGED <<config, out_f, output, files_seen, files_aggregated,
                 files_skipped_binary, files_failed, workflows_included, wf_names,
                 wf_name, walk_stack, current_root, files, file_path, content,
                 reads, summary>>

\* reading the file raises: files_failed += 1; continue
ReadFileFailed ==
  /\ pc = "read"
  /\ files_failed < MaxFailures
  /\ files_failed' = files_failed + 1
  /\ pc' = "files"
  /\ UNCHANGED <<config, out_f, output, files_seen, files_aggregated,
                 files_skipped_size, files_skipped_binary, workflows_included,
                 wf_names, wf_name, walk_stack, current_root, files, file_path,
                 content, statted, reads, summary>>

\* content = f.read(); a binary file is skipped, any other is written as a
\* FILE record
ReadFile ==
  /\ pc = "read"
  /\ reads' = Append(reads, <<"tree", file_path>>)
  /\ content' = Decode(data[file_path])
  /\ IF is_probably_binary(content')
       THEN /\ files_skipped_binary' = files_skipped_binary + 1
            /\ UNCHANGED <<output, files_aggregated>>
       ELSE /\ output' = output \o Record(KindFile, file_path, content')
            /\ files_aggregated' = files_aggregated + 1
            /\ UNCHANGED files_skipped_binary
  /\ pc' = "files"
  /\ UNCHANGED <<config, out_f, files_seen, files_skipped_size, files_failed,
                 workflows_included, wf_names, wf_name, walk_stack, current_root,
                 files, file_path, statted, summary>>

\* the walk is over: the final summary is printed and the with block closes out_f
Summary ==
  /\ pc = "walk"
  /\ walk_stack = <<>>
  /\ summary' = <<counters>>
  /\ out_f' = "closed"
  /\ pc' = "done"
  /\ UNCHANGED <<config, output, counters, wf_names, wf_name, walk_stack,
                 current_root, files, file_path, content, statted, reads>>

Next ==
  \/ CheckRoot
  \/ OpenOutput
  \/ ListWorkflows
  \/ ListWorkflowsFailed
  \/ NextWorkflow
  \/ ReadWorkflowFailed
  \/ ReadWorkflow
  \/ StartWalk
  \/ WalkDir
  \/ NextFile
  \/ GetSizeFailed
  \/ GetSize
  \/ ReadFileFailed
  \/ ReadFile
  \/ Summary

Spec == Init /\ [][Next]_vars

\* The interpreter runs the function to its end: no step that can be taken is
\* put off for ever.
FairSpec == Spec /\ WF_vars(Next)

\* ------------------------------------------------------------ vocabulary
StartsWith(s, prefix) ==
  /\ Len(s) >= Len(prefix)
  /\ SubSeq(s, 1, Len(prefix)) = prefix

\* the text of the output file: what was written, joined
RECURSIVE Flatten(_)
Flatten(chunks) ==
  IF chunks = <<>> THEN <<>> ELSE Head(chunks) \o Flatten(Tail(chunks))

HasNul(text) == \E i \in DOMAIN text : text[i] = NUL

\* the positions of the output where a record of this kind for this path starts
RecordsOf(kind, path) ==
  IF out_f = "unopened" THEN {}
  ELSE LET line == HeaderLine(kind, path)
       IN {i \in DOMAIN output : output[i] = line}

HasRecord(kind, path) == RecordsOf(kind, path) # {}

IsHeader(kind, chunk) == StartsWith(chunk, kind \o <<":", " ">>)

HeadersOf(kind) == {i \in DOMAIN output : IsHeader(kind, output[i])}

ReadCount(phase, path) ==
  Cardinality({i \in DOMAIN reads : reads[i] = <<phase, path>>})

\* a file below a directory whose name is in SKIP_DIRS
UnderSkipDir(path) == \E i \in 1..(Len(path) - 1) : path[i] \in SKIP_DIRS

\* the files the walk meets: those of the tree outside every skipped directory
\* (the workflow files when the directory exists) and the output file when it
\* lies in the root
WalkedDataFiles ==
  {f \in DataFiles : ~UnderSkipDir(f) /\ (f \in WorkflowFiles => has_workflows)}

WalkedCount ==
  Cardinality(WalkedDataFiles) + (IF output_path = InsidePath THEN 1 ELSE 0)

ExpectedSep == [i \in 1..40 |-> "="]

\* a record as the specification words it
RecordText(kind, path, text) ==
  ExpectedSep \o <<NL>> \o kind \o <<":", " ">> \o relpath(path) \o <<NL>>
  \o ExpectedSep \o <<NL>> \o <<NL>> \o text
  \o (IF text # <<>> /\ text[Len(text)] = NL THEN <<>> ELSE <<NL>>) \o <<NL>>

\* ------------------------------------------------------------------ claims

\* C1 (as stated): at the summary files_seen equals the sum of the four
\* classification counters, plus one when the output file was met in the walk.
C1_SeenIsSumOfBuckets ==
  pc = "done" =>
    files_seen = files_aggregated + files_skipped_size + files_skipped_binary
                 + files_failed + (IF output_path = InsidePath THEN 1 ELSE 0)

\* C2 (as stated): whenever the tree phase finishes with a file without a
\* failure and the file's decoded text contains a NUL, the file is counted in
\* files_skipped_binary and nothing is written, whatever its size.
C2_NulAlwaysSkipBinary ==
  [][(/\ pc \in {"getsize", "read"}
      /\ pc' = "files"
      /\ files_failed' = files_failed
      /\ HasNul(Decode(data[file_path])))
     => (/\ files_skipped_binary' = files_skipped_binary + 1
         /\ output' = output)]_vars

\* C2 (amended): whenever the tree phase reads a file (its size was obtained
\* and is at most max_bytes) and the decoded text contains a NUL, the file is
\* counted in files_skipped_binary and in no other bucket and nothing is
\* written; no FILE record ever exists for a file whose text contains a NUL.
C2_NulSkipBinaryWhenRead ==
  /\ [](\A f \in DataFiles : HasNul(Decode(data[f])) => ~HasRecord(KindFile, f))
  /\ [][(/\ pc = "read"
         /\ reads' # reads
         /\ HasNul(Decode(data[file_path])))
        => (/\ file_path \in statted
            /\ Len(data[file_path]) <= max_bytes
            /\ files_skipped_binary' = files_skipped_binary + 1
            /\ files_aggregated' = files_aggregated
            /\ files_skipped_size' = files_skipped_size
            /\ files_failed' = files_failed
            /\ output' = output)]_vars

\* C2 witness: a file of at most max_bytes with a NUL in it was read and
\* counted as binary.
C2_Witness ==
  /\ files_skipped_binary >= 1
  /\ file_path # <<>>
  /\ file_path # output_path
  /\ pc = "files"
  /\ ReadCount("tree", file_path) = 1
  /\ HasNul(Decode(data[file_path]))

\* C3: when the size of a walked file is obtained, the file is skipped for
\* size (counter incremented, nothing written, nothing read) exactly when the
\* size is strictly above max_bytes; otherwise, size == max_bytes included,
\* the run goes on to read it.  No FILE record exists for an oversized file,
\* and files_skipped_size changes in no other step.
C3_SkipSizeIffOver ==
  /\ [](\A f \in DataFiles : Len(data[f]) > max_bytes => ~HasRecord(KindFile, f))
  /\ [][(files_skipped_size' # files_skipped_size)
        => (pc = "getsize" /\ statted' # statted)]_vars
  /\ [][(pc = "getsize" /\ statted' # statted)
        => IF Len(data[file_path]) > max_bytes
             THEN /\ files_skipped_size' = files_skipped_size + 1
                  /\ output' = output
                  /\ reads' = reads
                  /\ pc' = "files"
             ELSE /\ files_skipped_size' = files_skipped_size
                  /\ pc' = "read"]_vars

\* C3 witness: one file was skipped for size and a file of exactly max_bytes
\* is about to be read.
C3_Witness ==
  /\ files_skipped_size >= 1
  /\ pc = "read"
  /\ Len(data[file_path]) = max_bytes

\* C4 (as stated): every file read in full, in either phase, had its size
\* obtained before and found to be at most max_bytes.
C4_ReadOnlyAfterSizeCheck ==
  \A i \in DOMAIN reads :
    /\ reads[i][2] \in statted
    /\ Len(data[reads[i][2]]) <= max_bytes

\* C5: the walk never stands in, nor has pending, a directory below a
\* SKIP_DIRS name; a file below such a directory is never the current file,
\* never statted, never read, never written as a FILE record; files_seen
\* never exceeds the number of files outside the skipped directories and
\* equals it when the run is done.
C5_SkippedDirsNeverVisited ==
  /\ \A i \in DOMAIN current_root : current_root[i] \notin SKIP_DIRS
  /\ \A k \in DOMAIN walk_stack :
       \A i \in DOMAIN walk_stack[k] : walk_stack[k][i] \notin SKIP_DIRS
  /\ ~UnderSkipDir(file_path)
  /\ \A f \in DataFiles :
       UnderSkipDir(f) =>
         /\ f \notin statted
         /\ ReadCount("tree", f) = 0
         /\ ~HasRecord(KindFile, f)
  /\ files_seen <= WalkedCount
  /\ pc = "done" => files_seen = WalkedCount

\* C5 witness: the run is done over a tree that holds node_modules/x.txt,
\* node_modules/lib/deep.txt and src/build/gen.txt, and has written a record.
C5_Witness ==
  /\ pc = "done"
  /\ files_aggregated >= 1
  /\ \E f \in DataFiles : UnderSkipDir(f) /\ Len(f) = 3

\* C6: the GIT WORKFLOW records come before every FILE record and in
\* lexicographic order of name; each is for an entry ending in .yml or .yaml,
\* an entry has as many records as successful reads by the workflow phase
\* (one at most), and workflows_included counts them.
C6_WorkflowRecordsArePrefix ==
  out_f # "unopened" =>
    /\ \A j \in HeadersOf(KindWorkflow) : \A i \in HeadersOf(KindFile) : j < i
    /\ \A i \in HeadersOf(KindWorkflow) :
           \E k \in DOMAIN wf_listing :
             /\ output[i] = HeaderLine(KindWorkflow, WorkflowsDir \o <<wf_listing[k]>>)
             /\ \/ EndsWith(wf_listing[k], <<".","y","m","l">>)
                \/ EndsWith(wf_listing[k], <<".","y","a","m","l">>)
    /\ \A k1, k2 \in DOMAIN wf_listing :
         \A i \in RecordsOf(KindWorkflow, WorkflowsDir \o <<wf_listing[k1]>>) :
           \A j \in RecordsOf(KindWorkflow, WorkflowsDir \o <<wf_listing[k2]>>) :
             i < j => LexLess(wf_listing[k1], wf_listing[k2])
    /\ \A k \in DOMAIN wf_listing :
         LET p == WorkflowsDir \o <<wf_listing[k]>>
         IN /\ Cardinality(RecordsOf(KindWorkflow, p)) = ReadCount("workflow", p)
            /\ ReadCount("workflow", p) <= 1
    /\ workflows_included = Cardinality(HeadersOf(KindWorkflow))

\* C6 witness: the directory was listed out of order, both workflow files
\* were written, and a FILE record follows them.
C6_Witness ==
  /\ pc = "done"
  /\ wf_listing[1] = n_notes_md
  /\ wf_listing[2] = n_deploy_yaml
  /\ workflows_included = 2
  /\ files_aggregated >= 1

\* C7: every step that writes appends exactly one record in the stated
\* format for the file at hand, and an output with records in it ends with a
\* blank line.
C7_RecordFormat ==
  /\ []((out_f # "unopened" /\ output # <<>>)
          => EndsWith(Flatten(output), <<NL, NL>>))
  /\ [][(out_f = "open" /\ output' # output)
        => \/ /\ pc = "wf_read"
              /\ Flatten(output') = Flatten(output)
                   \o RecordText(KindWorkflow, WorkflowsDir \o <<wf_name>>,
                                 Decode(data[WorkflowsDir \o <<wf_name>>]))
           \/ /\ pc = "read"
              /\ Flatten(output') = Flatten(output)
                   \o RecordText(KindFile, file_path, Decode(data[file_path]))]_vars

\* C7 witness: a record whose content ends in a newline and a record whose
\* content does not have both been written.
C7_Witness ==
  /\ \E f \in DataFiles :
       /\ HasRecord(KindWorkflow, f)
       /\ EndsWith(Decode(data[f]), <<NL>>)
  /\ \E f \in DataFiles :
       /\ HasRecord(KindFile, f)
       /\ ~EndsWith(Decode(data[f]), <<NL>>)

\* C8: a failing stat or read adds one to files_failed, changes no other
\* counter, writes nothing and leaves the run in its loop; every run over a
\* valid root reaches the summary, and by then has met every file outside the
\* skipped directories.
C8_FailuresDoNotAbort ==
  /\ [][(\/ pc = "wf_read" /\ reads' = reads
         \/ pc = "getsize" /\ statted' = statted
         \/ pc = "read" /\ reads' = reads)
        => (/\ files_failed' = files_failed + 1
            /\ output' = output
            /\ <<files_seen, files_aggregated, files_skipped_size,
                 files_skipped_binary, workflows_included>>'
                 = <<files_seen, files_aggregated, files_skipped_size,
                     files_skipped_binary, workflows_included>>
            /\ pc' = (IF pc = "wf_read" THEN "wf_loop" ELSE "files"))]_vars
  /\ [](pc # "exit" \/ ~root_is_dir)
  /\ (root_is_dir ~> (pc = "done" /\ summary # NoSummary /\ files_seen = WalkedCount))

\* C8 witness: the run is done after a failure in each phase.
C8_Witness ==
  /\ pc = "done"
  /\ files_failed >= 2
  /\ workflows_included = 1
  /\ Cardinality(statted) < Cardinality(WalkedDataFiles)

\* C9: with a root that is no directory the output file is never opened nor
\* truncated, no counter changes, nothing is read and no summary is printed;
\* the output is opened only under a valid root.
C9_BadRootWritesNothing ==
  /\ out_f # "unopened" => root_is_dir
  /\ ~root_is_dir =>
       /\ pc \in {"start", "exit"}
       /\ out_f = "unopened"
       /\ output = PriorOutput
       /\ counters = <<0, 0, 0, 0, 0, 0>>
       /\ reads = <<>>
       /\ statted = {}
       /\ summary = NoSummary

\* C9 witness: the run has aborted on a bad root.
C9_Witness == pc = "exit" /\ ~root_is_dir

\* C10: with workflows enabled and the directory there, files_seen is 0
\* throughout the workflow phase and counts every workflow entry once when
\* the run is done; a workflow file written as GIT WORKFLOW that the tree
\* phase then stats, finds small enough, reads and finds textual has exactly
\* one FILE record as well, after its GIT WORKFLOW record, with the same
\* content, and is counted in files_aggregated.
C10_WorkflowFilesWalkedAgain ==
  (WorkflowsEnabled /\ has_workflows) =>
    /\ pc \in {"workflows", "wf_loop", "wf_read", "walk_start"} => files_seen = 0
    /\ pc = "done" =>
         /\ files_seen = Len(FilesIn(Root)) + Len(wf_listing)
         /\ files_aggregated = Cardinality(HeadersOf(KindFile))
    /\ \A f \in WorkflowFiles :
         (/\ HasRecord(KindWorkflow, f)
          /\ ReadCount("tree", f) = 1
          /\ ~is_probably_binary(Decode(data[f])))
         => /\ f \in statted
            /\ Len(data[f]) <= max_bytes
            /\ Cardinality(RecordsOf(KindFile, f)) = 1
            /\ \A i \in RecordsOf(KindWorkflow, f) :
                 \A j \in RecordsOf(KindFile, f) :
                   /\ i < j
                   /\ output[i + 2] = Decode(data[f])
                   /\ output[j + 2] = output[i + 2]

\* C10 witness: ci.yml is in the finished output twice, once under each kind.
C10_Witness ==
  /\ pc = "done"
  /\ Cardinality(RecordsOf(KindWorkflow, WorkflowsDir \o <<n_ci_yml>>)) = 1
  /\ Cardinality(RecordsOf(KindFile, WorkflowsDir \o <<n_ci_yml>>)) = 1

====
